---- MODULE Spec2Model ----
(***************************************************************************)
(* QuizMe-BE: the question generation pipeline.                            *)
(*                                                                         *)
(*   OpenAIService.validateAndFormatQuestions  (normalizer / repairer)     *)
(*   QuestionsService.generateMultipleQuestions (multi-type aggregator)    *)
(*   QuestionsService.generateQuestions        (single-type method)        *)
(*   FileProcessingService.validateFile, sanitizeText, truncateText        *)
(*   PracticeService.startPractice, submitAnswer, completePractice         *)
(*                                                                         *)
(* JavaScript values are encoded as records so that values of different    *)
(* JavaScript types stay comparable:                                       *)
(*   - a string is a TLA+ string; null and undefined are the two reserved  *)
(*     strings Null and Undefined, which no input string equals;           *)
(*   - a question text is a sequence of tokens.  A token is one of the     *)
(*     literal words the repair patterns look for (written without their   *)
(*     diacritics: "la", "bang", "co", "duoc", "goi"), a blank " ",         *)
(*     one of the characters "," "." "?", the blank marker "_____", or     *)
(*     "x", any other non-blank character.                                 *)
(***************************************************************************)
EXTENDS Integers, Sequences, FiniteSets, Bags, TLC

VARIABLES
    handler,                \* the method of QuestionsService that was called
    file,                   \* its parameter file
    extracted,              \* extractTextFromFile has been called
    pc,                     \* position in the method
    questionCount,          \* dto.questionCount
    questionTypes,          \* dto.questionTypes
    idx,                    \* index of the loop over questionTypes
    calls,                  \* requests handed to openaiService.generateQuestions
    subResults,             \* what each completed sub-call returned
    allGeneratedQuestions,  \* the accumulator of the loop
    persisted,              \* question lists handed to saveQuestionSet
    nQuestions,             \* validateAndFormatQuestions: parameter questions
    nType,                  \* validateAndFormatQuestions: parameter questionType
    nResult,                \* validateAndFormatQuestions: outcome
    sText,                  \* sanitizeText: parameter text
    sFirst,                 \* what sanitizeText(sText) returned
    sSecond,                \* what sanitizeText(sFirst.text) returned
    jCorrect,               \* the choiceLabels of question.correctAnswers
    jSelected,              \* submitAnswerDto.selectedChoices
    jVerdict,               \* the value of isCorrect for them
    sessions,               \* table practice_sessions: the row of id k is sessions[k]
    practiceAnswers,        \* table practice_answers: the bag of its rows
    call                    \* the call of PracticeService each client has in flight

vars == <<handler, file, extracted, pc, questionCount, questionTypes, idx, calls, subResults,
          allGeneratedQuestions, persisted, nQuestions, nType, nResult,
          sText, sFirst, sSecond, jCorrect, jSelected, jVerdict,
          sessions, practiceAnswers, call>>

aggVars == <<handler, file, extracted, pc, questionCount, questionTypes, idx, calls, subResults,
             allGeneratedQuestions, persisted>>

normVars == <<nQuestions, nType, nResult>>

sanVars == <<sText, sFirst, sSecond>>

judgeVars == <<jCorrect, jSelected, jVerdict>>

pracVars == <<judgeVars, sessions, practiceAnswers, call>>

----------------------------------------------------------------------------
(* Bounds of the model *)

MaxAnswers == 4

MaxTypes == 2

MaxCount == 4

MaxReturned == 3

\* longest question text over all tokens
MaxTextLen == 3

\* longest question text over the tokens of LongTextTokens
MaxLongTextLen == 7

\* longest questions array of several elements
MaxListLen == 3

\* MAX_CHARS of truncateText, 10000 in the source, scaled down so that the
\* texts longer than it can be enumerated; 20% of it is the search window
MAX_CHARS == 20

\* the texts longer than MAX_CHARS start with FillerLen letters and go on
\* with at most MaxTailLen characters
FillerLen == 15

MaxTailLen == 6

\* longest text without the filler
MaxPlainLen == 4

\* longest list of correct labels and of selected choices
MaxLabels == 3

\* practice sessions created
MaxSessions == 2

\* rows of practice_answers, with the submitAnswer calls in flight, when
\* calls run concurrently
MaxStoredAnswers == 2

----------------------------------------------------------------------------
(* JavaScript values *)

Null == "<null>"

Undefined == "<undefined>"

\* x ?? d
Coalesce(x, d) == IF x \in {Null, Undefined} THEN d ELSE x

\* arr[0]
First(arr) == IF Len(arr) = 0 THEN Undefined ELSE arr[1]

\* arr.includes(x)
Includes(arr, x) == \E k \in 1..Len(arr) : arr[k] = x

\* arr.slice(0, n)
Slice0(arr, n) == SubSeq(arr, 1, IF n < Len(arr) THEN n ELSE Len(arr))

\* Number.prototype.toString for the numbers the inputs use
NumberToString(n) ==
    CASE n = 0 -> "0" [] n = 1 -> "1" [] n = 2 -> "2" [] n = 3 -> "3"
      [] n = 4 -> "4" [] n = 5 -> "5" [] n = 6 -> "6" [] n = 7 -> "7"
      [] n = 8 -> "8" [] n = 9 -> "9"

QuestionType ==
    {"MULTIPLE_CHOICE", "TRUE_FALSE", "MULTIPLE_RESPONSE", "MATCHING", "COMPLETION"}

----------------------------------------------------------------------------
(* Question text *)

BlankMarker == "_____"

IsSpace(c) == c = " "

\* the character class [^\s,.]
IsWordChar(c) == ~IsSpace(c) /\ c \notin {",", "."}

\* text.includes('_____')
HasBlank(text) == Includes(text, BlankMarker)

\* the position after the run of \s that starts at position i
RECURSIVE SkipSpaces(_, _)
SkipSpaces(text, i) ==
    IF i <= Len(text) /\ IsSpace(text[i]) THEN SkipSpaces(text, i + 1) ELSE i

\* the position after the run of [^\s,.] that starts at position i
RECURSIVE SkipWord(_, _)
SkipWord(text, i) ==
    IF i <= Len(text) /\ IsWordChar(text[i]) THEN SkipWord(text, i + 1) ELSE i

\* The last position of a match of  w1 \s+ w2 \s+ ... wn \s+ ([^\s,.]+)  that
\* starts at position i, or 0 when there is none there.
RECURSIVE MatchEnd(_, _, _)
MatchEnd(text, i, words) ==
    IF words = <<>>
    THEN IF i <= Len(text) /\ IsWordChar(text[i])
         THEN SkipWord(text, i) - 1
         ELSE 0
    ELSE IF i + 1 <= Len(text) /\ text[i] = Head(words) /\ IsSpace(text[i + 1])
         THEN MatchEnd(text, SkipSpaces(text, i + 1), Tail(words))
         ELSE 0

\* text.replace(/w1\s+...wn\s+([^\s,.]+)/g, replacement) from position i on
RECURSIVE ReplaceFrom(_, _, _, _)
ReplaceFrom(text, i, words, replacement) ==
    IF i > Len(text) THEN <<>>
    ELSE LET e == MatchEnd(text, i, words) IN
         IF e > 0
         THEN replacement \o ReplaceFrom(text, e + 1, words, replacement)
         ELSE <<text[i]>> \o ReplaceFrom(text, i + 1, words, replacement)

ReplaceAll(text, words, replacement) == ReplaceFrom(text, 1, words, replacement)

\* text.replace(/\?$/, ' _____?')
ReplaceFinalQuestionMark(text) ==
    IF Len(text) > 0 /\ text[Len(text)] = "?"
    THEN SubSeq(text, 1, Len(text) - 1) \o <<" ", BlankMarker, "?">>
    ELSE text

\* AppendBlank without its last statement  question += ' _____'
AppendBlankAfterQuestionMarkOnly(text) ==
    IF HasBlank(text) THEN text ELSE ReplaceFinalQuestionMark(text)

\* The fall-back of both repairs when no pattern put a blank in the text
AppendBlank(text) ==
    IF HasBlank(text) THEN text
    ELSE LET t == ReplaceFinalQuestionMark(text) IN
         IF HasBlank(t) THEN t ELSE t \o <<" ", BlankMarker>>

\* The COMPLETION branch's repair of a text without the blank marker
FixCompletionText(text) ==
    LET t1 == ReplaceAll(text, <<"la">>, <<"la", " ", BlankMarker>>)
        t2 == ReplaceAll(t1, <<"bang">>, <<"bang", " ", BlankMarker>>)
        t3 == ReplaceAll(t2, <<"co">>, <<"co", " ", BlankMarker>>)
        t4 == ReplaceAll(t3, <<"duoc", "goi", "la">>,
                         <<"duoc", " ", "goi", " ", "la", " ", BlankMarker>>)
    IN  AppendBlank(t4)

----------------------------------------------------------------------------
(* FileProcessingService: sanitizeText and truncateText.  A text is a       *)
(* sequence of characters; "a" stands for any character that is neither     *)
(* white space nor a sentence terminator.                                   *)

maxSize == 10 * 1024 * 1024

allowedTypes == <<"application/pdf", "text/plain">>

\* Variant of validateFile: the size is not looked at
validateFileTypeOnly(f) == Includes(allowedTypes, f.mimetype)

\* validateFile: FALSE when it throws
validateFile(f) ==
    /\ Includes(allowedTypes, f.mimetype)
    /\ ~(f.size > maxSize)

\* the character class \s
IsWhiteSpace(c) == c \in {" ", "\n"}

Min(a, b) == IF a < b THEN a ELSE b

Max(a, b) == IF a > b THEN a ELSE b

\* str.substring(from, to) for 0 <= from
Substring(str, from, to) == SubSeq(str, from + 1, Min(to, Len(str)))

\* the position after the run of \s that starts at position i
RECURSIVE SkipWhiteSpace(_, _)
SkipWhiteSpace(text, i) ==
    IF i <= Len(text) /\ IsWhiteSpace(text[i]) THEN SkipWhiteSpace(text, i + 1) ELSE i

\* text.replace(/\s+/g, ' ') from position i on
RECURSIVE CollapseWhiteSpaceFrom(_, _)
CollapseWhiteSpaceFrom(text, i) ==
    IF i > Len(text) THEN <<>>
    ELSE IF IsWhiteSpace(text[i])
         THEN <<" ">> \o CollapseWhiteSpaceFrom(text, SkipWhiteSpace(text, i))
         ELSE <<text[i]>> \o CollapseWhiteSpaceFrom(text, i + 1)

CollapseWhiteSpace(text) == CollapseWhiteSpaceFrom(text, 1)

\* The last position of the match of \n\s*\n that starts at position i, or 0:
\* the last line break of the white space that follows the line break at i
BlankLinesEnd(text, i) ==
    IF i > Len(text) \/ text[i] # "\n" THEN 0
    ELSE LET stop == SkipWhiteSpace(text, i + 1)
             breaks == { j \in (i + 1)..(stop - 1) : text[j] = "\n" }
         IN  IF breaks = {} THEN 0 ELSE CHOOSE j \in breaks : \A k \in breaks : k <= j

\* text.replace(/\n\s*\n/g, '\n') from position i on
RECURSIVE CollapseBlankLinesFrom(_, _)
CollapseBlankLinesFrom(text, i) ==
    IF i > Len(text) THEN <<>>
    ELSE LET e == BlankLinesEnd(text, i) IN
         IF e > 0
         THEN <<"\n">> \o CollapseBlankLinesFrom(text, e + 1)
         ELSE <<text[i]>> \o CollapseBlankLinesFrom(text, i + 1)

CollapseBlankLines(text) == CollapseBlankLinesFrom(text, 1)

\* str.trim()
RECURSIVE TrimStart(_)
TrimStart(str) ==
    IF str # <<>> /\ IsWhiteSpace(Head(str)) THEN TrimStart(Tail(str)) ELSE str

RECURSIVE TrimEnd(_)
TrimEnd(str) ==
    IF str # <<>> /\ IsWhiteSpace(str[Len(str)])
    THEN TrimEnd(SubSeq(str, 1, Len(str) - 1))
    ELSE str

Trim(str) == TrimEnd(TrimStart(str))

\* str.lastIndexOf(pattern): an index from 0, or -1
LastIndexOf(str, pattern) ==
    LET found == { i \in 0..(Len(str) - Len(pattern)) :
                      SubSeq(str, i + 1, i + Len(pattern)) = pattern }
    IN  IF found = {} THEN -1 ELSE CHOOSE i \in found : \A k \in found : k <= i

sentenceEndings ==
    << <<".", " ">>, <<".", "\n">>, <<"!", " ">>, <<"!", "\n">>,
       <<"?", " ">>, <<"?", "\n">> >>

paragraphBreaks == << <<"\n", "\n">>, <<"\n", " ">> >>

\* Variant of LastEnding: the index of the first pattern that occurs
RECURSIVE LastEndingOfFirstKind(_, _)
LastEndingOfFirstKind(searchText, patterns) ==
    IF patterns = <<>> THEN -1
    ELSE IF LastIndexOf(searchText, Head(patterns)) > -1
         THEN LastIndexOf(searchText, Head(patterns))
         ELSE LastEndingOfFirstKind(searchText, Tail(patterns))

\* for (const ending of patterns) { index = searchText.lastIndexOf(ending);
\*   if (index > last) last = index }   starting from last = -1
RECURSIVE LastEnding(_, _)
LastEnding(searchText, patterns) ==
    IF patterns = <<>> THEN -1
    ELSE Max(LastEnding(searchText, SubSeq(patterns, 1, Len(patterns) - 1)),
             LastIndexOf(searchText, patterns[Len(patterns)]))

\* Variant of truncateText: a cut at MAX_CHARS, neither moved to a sentence
\* end nor trimmed
truncateTextUntrimmed(text) ==
    IF Len(text) <= MAX_CHARS THEN [text |-> text, wasTruncated |-> FALSE]
    ELSE [text |-> Substring(text, 0, MAX_CHARS), wasTruncated |-> TRUE]

truncateText(text) ==
    IF Len(text) <= MAX_CHARS THEN [text |-> text, wasTruncated |-> FALSE]
    ELSE LET truncated == Substring(text, 0, MAX_CHARS)
             searchStart == Max(0, MAX_CHARS - ((MAX_CHARS * 2) \div 10))
             searchText == Substring(truncated, searchStart, Len(truncated))
             lastSentenceEnd == LastEnding(searchText, sentenceEndings)
             lastParagraphEnd == LastEnding(searchText, paragraphBreaks)
             cut == IF lastSentenceEnd > -1
                    THEN Substring(truncated, 0, searchStart + lastSentenceEnd + 1)
                    ELSE IF lastParagraphEnd > -1
                         THEN Substring(truncated, 0, searchStart + lastParagraphEnd)
                         ELSE truncated
         IN  [text |-> Trim(cut), wasTruncated |-> TRUE]

\* The first statement of sanitizeText
NormalizeWhiteSpace(text) == Trim(CollapseBlankLines(CollapseWhiteSpace(text)))

sanitizeText(text) ==
    LET sanitized == NormalizeWhiteSpace(text)
        result == truncateText(sanitized)
    IN  [text |-> result.text,
         wasTruncated |-> result.wasTruncated,
         originalLength |-> Len(sanitized),
         truncatedLength |-> Len(result.text)]

\* The characters of an extracted text
TextChars == {"a", " ", "\n", ".", "?"}

Filler == [k \in 1..FillerLen |-> "a"]

\* The extracted texts: every text of at most MaxPlainLen characters, and the
\* filler followed by every text of at most MaxTailLen characters
ExtractedTexts ==
    UNION { [1..n -> TextChars] : n \in 0..MaxPlainLen }
        \cup { Filler \o tail : tail \in UNION { [1..n -> TextChars] : n \in 0..MaxTailLen } }

NotCalled ==
    [text |-> <<>>, wasTruncated |-> FALSE, originalLength |-> -1, truncatedLength |-> -1]

SanitizerIdle ==
    /\ sText = <<>>
    /\ sFirst = NotCalled
    /\ sSecond = NotCalled

----------------------------------------------------------------------------
(* PracticeService: the data of the store and the judgement of an answer *)

\* The choice labels, in the order in which Array.prototype.sort puts them
Labels == <<"A", "B", "C">>

LabelRank(label) == CHOOSE k \in 1..Len(Labels) : Labels[k] = label

\* arr with x inserted before the first element that sorts after x
RECURSIVE InsertSorted(_, _)
InsertSorted(arr, x) ==
    IF arr = <<>> THEN <<x>>
    ELSE IF LabelRank(x) < LabelRank(Head(arr)) THEN <<x>> \o arr
         ELSE <<Head(arr)>> \o InsertSorted(Tail(arr), x)

\* arr.sort() for an array of labels
RECURSIVE Sort(_)
Sort(arr) ==
    IF arr = <<>> THEN <<>>
    ELSE InsertSorted(Sort(SubSeq(arr, 1, Len(arr) - 1)), arr[Len(arr)])

\* JSON.stringify(arr) for an array of labels, as the sequence of its pieces
RECURSIVE JsonItems(_)
JsonItems(arr) ==
    IF arr = <<>> THEN <<>>
    ELSE IF Len(arr) = 1 THEN <<"\"", arr[1], "\"">>
         ELSE <<"\"", arr[1], "\"", ",">> \o JsonItems(Tail(arr))

JsonStringify(arr) == <<"[">> \o JsonItems(arr) \o <<"]">>

\* Variant of isCorrect: selectedChoices is compared as submitted
isCorrectUnsorted(correctLabels, selectedChoices) ==
    JsonStringify(Sort(correctLabels)) = JsonStringify(selectedChoices)

\* submitAnswer: "Check if answer is correct"
isCorrect(correctLabels, selectedChoices) ==
    JsonStringify(Sort(correctLabels)) = JsonStringify(Sort(selectedChoices))

\* The lists of at most MaxLabels labels
LabelLists == UNION { [1..n -> {Labels[k] : k \in 1..Len(Labels)}] : n \in 0..MaxLabels }

JudgeIdle ==
    /\ jCorrect = <<>>
    /\ jSelected = <<>>
    /\ jVerdict = "none"

\* The stored question sets and the ids of their questions
QuestionSets ==
    [setA |-> <<"q1">>, setB |-> <<"q2">>, setEmpty |-> <<>>]

\* The stored questions: the choiceLabels of their correctAnswers rows
Questions ==
    [q1 |-> [correctAnswers |-> <<"A">>],
     q2 |-> [correctAnswers |-> <<"B", "A">>]]

\* Ids a client may send; setX and qX are ids of no row
QuestionSetIds == {"setA", "setEmpty", "setX"}

QuestionIds == {"q1", "q2", "qX"}

SelectedSamples == { <<"A">>, <<"B", "A">> }

\* The clients that call PracticeService
Clients == {"c1", "c2"}

NoSession == [questionSetId |-> "", totalQuestions |-> 0, score |-> 0, isCompleted |-> FALSE]

NoStore == [sessions |-> <<>>, practiceAnswers |-> EmptyBag]

\* Variant of AnswersFor: no row is found
AnswersForNotFound(answers, sessionId, questionId) == {}

\* The rows of practice_answers for a session and a question
AnswersFor(answers, sessionId, questionId) ==
    { row \in BagToSet(answers) :
        row.sessionId = sessionId /\ row.questionId = questionId }

\* A client without a call in flight
IdleCall ==
    [op |-> "none", pc |-> "idle", outcome |-> "",
     sessionId |-> 0, questionId |-> "", questionSetId |-> "", selectedChoices |-> <<>>,
     session |-> NoSession, correctAnswerLabels |-> <<>>, isCorrect |-> FALSE,
     atStart |-> NoStore]

PracticeIdle ==
    /\ JudgeIdle
    /\ sessions = <<>>
    /\ practiceAnswers = EmptyBag
    /\ call = [p \in Clients |-> IdleCall]

----------------------------------------------------------------------------
(* OpenAIService: the normalizer *)

\* A JavaScript string or number as a field of a decoded choice; any other
\* value (a boolean, null, an object) has t = "other".
JsString(s) == [t |-> "string", s |-> s, n |-> 0]

JsNumber(n) == [t |-> "number", s |-> "", n |-> n]

JsOther == [t |-> "other", s |-> "", n |-> 0]

\* A decoded element of choices: an object with the keys label and content,
\* or anything else (isObject = FALSE).
RawChoice(label, content) == [isObject |-> TRUE, label |-> label, content |-> content]

NotAChoice == [isObject |-> FALSE, label |-> JsOther, content |-> JsOther]

\* ChoiceField without the branch for numbers
ChoiceFieldOfStringsOnly(v) == IF v.t = "string" THEN v.s ELSE ""

\* typeof v === 'string' ? v : typeof v === 'number' ? v.toString() : ''
ChoiceField(v) ==
    IF v.t = "string" THEN v.s
    ELSE IF v.t = "number" THEN NumberToString(v.n)
    ELSE ""

\* validateChoices: ok = FALSE when it throws
validateChoices(choices) ==
    IF \E k \in 1..Len(choices) : ~choices[k].isObject
    THEN [ok |-> FALSE, choices |-> <<>>]
    ELSE [ok |-> TRUE,
          choices |-> [k \in 1..Len(choices) |->
                          [label |-> ChoiceField(choices[k].label),
                           content |-> ChoiceField(choices[k].content)]]]

\* A decoded correctAnswers value: absent, a single value, or an array
AnswersAbsent == [kind |-> "absent", value |-> Undefined, items |-> <<>>]

AnswersScalar(v) == [kind |-> "scalar", value |-> v, items |-> <<>>]

AnswersArray(items) == [kind |-> "array", value |-> Undefined, items |-> items]

\* isValidQuestionStructure
isValidQuestionStructure(q) ==
    /\ q.isObject
    /\ q.questionIsString
    /\ q.choicesIsArray
    /\ q.correctAnswers.kind # "absent"

\* Array.isArray(q.correctAnswers) ? q.correctAnswers : [q.correctAnswers]
AsAnswerList(ca) == IF ca.kind = "array" THEN ca.items ELSE <<ca.value>>

LabelPool == <<"A", "B", "C", "D">>

\* ['A', 'B', 'C', 'D'].filter((label) => !answers.includes(label))
AvailableLabels(answers) == SelectSeq(LabelPool, LAMBDA label : ~Includes(answers, label))

TrueFalseChoices ==
    << [label |-> "True", content |-> "Dung"], [label |-> "False", content |-> "Sai"] >>

\* case TRUE_FALSE: the correct answers
TrueFalseAnswers(answers) ==
    IF Coalesce(First(answers), "") \notin {"True", "False"} THEN <<"True">> ELSE answers

\* Variant: without the ?? 'A' default
SingleAnswerNoDefault(answers) == << First(answers) >>

\* case MULTIPLE_CHOICE and the first statement of case COMPLETION
SingleAnswer(answers) == << Coalesce(First(answers), "A") >>

\* Variant: the pushed label is not filtered against the supplied answer
MultipleResponseTopUpUnfiltered(answers) ==
    IF Len(answers) >= 2 THEN answers
    ELSE LET pushed == IF Len(answers) = 1 THEN Append(answers, LabelPool[1]) ELSE answers
         IN  IF Len(pushed) < 2 THEN <<"A", "B">> ELSE pushed

\* Variant: a single supplied answer is left alone
MultipleResponseTopUpOfNone(answers) ==
    IF Len(answers) >= 1 THEN answers ELSE <<"A", "B">>

\* case MULTIPLE_RESPONSE: the top-up of fewer than 2 answers
MultipleResponseTopUp(answers) ==
    IF Len(answers) >= 2 THEN answers
    ELSE LET pushed == IF Len(answers) = 1 /\ Len(AvailableLabels(answers)) > 0
                       THEN Append(answers, AvailableLabels(answers)[1])
                       ELSE answers
         IN  IF Len(pushed) < 2 THEN <<"A", "B">> ELSE pushed

\* Variant: without the cut to 3 answers
MultipleResponseAnswersUncut(answers) == MultipleResponseTopUp(answers)

\* case MULTIPLE_RESPONSE
MultipleResponseAnswers(answers) ==
    LET fixed == MultipleResponseTopUp(answers)
    IN  IF Len(fixed) > 3 THEN Slice0(fixed, 3) ELSE fixed

\* Variant: the supplied-content field in place of the label
MatchingAnswersContent(choices) == [k \in 1..Len(choices) |-> choices[k].content]

\* case MATCHING
MatchingAnswers(choices) == [k \in 1..Len(choices) |-> choices[k].label]

\* case COMPLETION: the question text
CompletionText(text) == IF ~HasBlank(text) THEN FixCompletionText(text) ELSE text

\* The body of the map callback for a structurally valid question whose
\* choices validateChoices accepted
FormatQuestion(q, formattedChoices, questionType) ==
    LET answers == AsAnswerList(q.correctAnswers) IN
    [question |-> IF questionType = "COMPLETION" THEN CompletionText(q.question)
                  ELSE q.question,
     choices |-> IF questionType = "TRUE_FALSE" THEN TrueFalseChoices
                 ELSE formattedChoices,
     correctAnswers |->
        CASE questionType = "TRUE_FALSE" -> TrueFalseAnswers(answers)
          [] questionType = "MULTIPLE_CHOICE" -> SingleAnswer(answers)
          [] questionType = "MULTIPLE_RESPONSE" -> MultipleResponseAnswers(answers)
          [] questionType = "MATCHING" -> MatchingAnswers(formattedChoices)
          [] questionType = "COMPLETION" -> SingleAnswer(answers),
     explanation |-> Coalesce(q.explanation, ""),
     type |-> questionType]

\* Whether the map callback throws on q
Throws(q) ==
    \/ ~isValidQuestionStructure(q)
    \/ ~validateChoices(q.choices).ok

\* Variant: an element on which the map callback throws is left out
validateAndFormatQuestionsSkipping(questions, questionType) ==
    LET kept == SelectSeq(questions, LAMBDA q : ~Throws(q)) IN
    [ok |-> TRUE,
     questions |-> [k \in 1..Len(kept) |->
                       FormatQuestion(kept[k],
                                      validateChoices(kept[k].choices).choices,
                                      questionType)]]

\* validateAndFormatQuestions: ok = FALSE when the map callback throws
validateAndFormatQuestions(questions, questionType) ==
    IF \E k \in 1..Len(questions) : Throws(questions[k])
    THEN [ok |-> FALSE, questions |-> <<>>]
    ELSE [ok |-> TRUE,
          questions |-> [k \in 1..Len(questions) |->
                            FormatQuestion(questions[k],
                                           validateChoices(questions[k].choices).choices,
                                           questionType)]]

----------------------------------------------------------------------------
(* Inputs of the normalizer *)

\* A decoded element of the questions array
RawQuestion(text, choices, answers, explanation) ==
    [isObject |-> TRUE, questionIsString |-> TRUE, question |-> text,
     choicesIsArray |-> TRUE, choices |-> choices,
     correctAnswers |-> answers, explanation |-> explanation]

StringChoice(label, content) == RawChoice(JsString(label), JsString(content))

ChoicesABCD ==
    << StringChoice("A", "p"), StringChoice("B", "q"),
       StringChoice("C", "r"), StringChoice("D", "s") >>

SampleChoices ==
    { ChoicesABCD,
      << StringChoice("True", "p"), StringChoice("False", "q") >>,
      << RawChoice(JsNumber(1), JsString("p")), RawChoice(JsNumber(2), JsNumber(7)) >>,
      << RawChoice(JsOther, JsString("p")), StringChoice("A", "q"),
         RawChoice(JsString("B"), JsOther) >>,
      << >>,
      << StringChoice("A", "p"), NotAChoice >> }

SampleTexts ==
    { << "x" >>,
      << "x", " ", "_____", " ", "x" >>,
      << "x", " ", "la", " ", "x", "?" >> }

\* Every token a question text is made of
TextTokens == {"la", "bang", "co", "duoc", "goi", " ", ",", ".", "?", BlankMarker, "x"}

\* Every text of at most MaxTextLen tokens
ShortTexts == UNION { [1..n -> TextTokens] : n \in 0..MaxTextLen }

LongTextTokens == {"la", "co", " ", "x"}

\* Longer texts, in which a pattern can match more than once
LongTexts == UNION { [1..n -> LongTextTokens] : n \in 0..MaxLongTextLen }

TextCases ==
    ShortTexts \cup LongTexts
        \cup { << "x", " ", "duoc", " ", "goi", " ", "la", " ", "x" >> }

AnswerValues == {"A", "True", "False", Null}

AnswerLists == UNION { [1..n -> AnswerValues] : n \in 0..MaxAnswers }

SampleAnswers ==
    { AnswersScalar(v) : v \in AnswerValues } \cup { AnswersArray(a) : a \in AnswerLists }

\* Elements that pass isValidQuestionStructure
WellFormedQuestions ==
    { RawQuestion(text, choices, answers, "why") :
        text \in SampleTexts, choices \in SampleChoices, answers \in SampleAnswers }

GoodQuestion == RawQuestion(<<"x">>, ChoicesABCD, AnswersArray(<<"A">>), "why")

\* Elements that fail isValidQuestionStructure, one per conjunct, and an
\* element without explanation
OddQuestions ==
    { [GoodQuestion EXCEPT !.isObject = FALSE],
      [GoodQuestion EXCEPT !.questionIsString = FALSE, !.question = <<>>],
      [GoodQuestion EXCEPT !.choicesIsArray = FALSE, !.choices = <<>>],
      [GoodQuestion EXCEPT !.correctAnswers = AnswersAbsent],
      [GoodQuestion EXCEPT !.explanation = Undefined] }

Pending == [status |-> "pending", questions |-> <<>>]

NoFile == [mimetype |-> "", size |-> 0]

AggregatorIdle ==
    /\ handler = "none"
    /\ file = NoFile
    /\ extracted = FALSE
    /\ pc = "idle"
    /\ questionCount = 1
    /\ questionTypes = <<>>
    /\ idx = 0
    /\ calls = <<>>
    /\ subResults = <<>>
    /\ allGeneratedQuestions = <<>>
    /\ persisted = <<>>

\* A well-formed element with the given question text
QuestionWithText(text) == RawQuestion(text, ChoicesABCD, AnswersArray(<<"A">>), "why")

\* The elements of the longer questions arrays
ElementPool ==
    { GoodQuestion,
      QuestionWithText(<< "x", " ", "la", " ", "x" >>),
      RawQuestion(<<"x">>, << StringChoice("A", "p"), NotAChoice >>,
                  AnswersArray(<<"A">>), "why") }
        \cup OddQuestions

QuestionLists == UNION { [1..n -> ElementPool] : n \in 0..MaxListLen }

InitNormalize ==
    /\ \/ /\ nQuestions \in { <<q>> : q \in WellFormedQuestions \cup OddQuestions }
          /\ nType \in QuestionType
       \/ /\ nQuestions \in QuestionLists
          /\ nType \in QuestionType
       \/ /\ nQuestions \in { <<QuestionWithText(text)>> : text \in TextCases }
          /\ nType = "COMPLETION"
    /\ nResult = Pending
    /\ AggregatorIdle
    /\ SanitizerIdle
    /\ PracticeIdle

\* One call of validateAndFormatQuestions(nQuestions, nType)
ValidateAndFormat ==
    /\ nResult.status = "pending"
    /\ LET r == validateAndFormatQuestions(nQuestions, nType) IN
       nResult' = [status |-> IF r.ok THEN "returned" ELSE "threw",
                   questions |-> r.questions]
    /\ UNCHANGED <<nQuestions, nType>>
    /\ UNCHANGED <<aggVars, sanVars, pracVars>>

NextNormalize == ValidateAndFormat

SpecNormalize == InitNormalize /\ [][NextNormalize]_vars

----------------------------------------------------------------------------
(* OpenAIService.generateQuestions *)

\* What the generative model gives back for one prompt: the call itself
\* fails, or it returns a text in which extractJson finds a JSON value or
\* not, whose questions field is present or not.
ReplyCallFails ==
    [callFails |-> TRUE, jsonFound |-> FALSE, hasQuestions |-> FALSE, questions |-> <<>>]

ReplyNoJson ==
    [callFails |-> FALSE, jsonFound |-> FALSE, hasQuestions |-> FALSE, questions |-> <<>>]

ReplyNoQuestions ==
    [callFails |-> FALSE, jsonFound |-> TRUE, hasQuestions |-> FALSE, questions |-> <<>>]

ReplyQuestions(questions) ==
    [callFails |-> FALSE, jsonFound |-> TRUE, hasQuestions |-> TRUE, questions |-> questions]

\* Variant: the catch block returns an empty list instead of rethrowing
generateQuestionsSwallowing(reply, questionType) ==
    IF reply.callFails \/ ~reply.jsonFound \/ ~reply.hasQuestions
    THEN [ok |-> TRUE, questions |-> <<>>]
    ELSE LET r == validateAndFormatQuestions(reply.questions, questionType)
         IN  [ok |-> TRUE, questions |-> r.questions]

\* generateQuestions: ok = FALSE when it throws 'Failed to generate questions'
generateQuestions(reply, questionType) ==
    IF reply.callFails \/ ~reply.jsonFound \/ ~reply.hasQuestions
    THEN [ok |-> FALSE, questions |-> <<>>]
    ELSE validateAndFormatQuestions(reply.questions, questionType)

----------------------------------------------------------------------------
(* QuestionsService.generateMultipleQuestions *)

\* Variant: Math.floor in place of Math.ceil
QuestionsPerTypeFloor(count, types) == count \div types

\* Math.ceil(questionCount / questionTypes.length)
QuestionsPerType(count, types) == (count + types - 1) \div types

\* Variant: unshift in place of push
PushAllFront(all, generated) == generated \o all

\* allGeneratedQuestions.push(...generatedQuestions)
PushAll(all, generated) == all \o generated

\* while (q.correctAnswers.length < 2 && availableLabels.length > 0) push(shift())
RECURSIVE PushWhileShort(_, _)
PushWhileShort(answers, available) ==
    IF Len(answers) < 2 /\ Len(available) > 0
    THEN PushWhileShort(Append(answers, Head(available)), Tail(available))
    ELSE answers

\* "Fix MULTIPLE_RESPONSE questions"
FixMultipleResponse(q) ==
    IF q.type = "MULTIPLE_RESPONSE" /\ Len(q.correctAnswers) < 2
    THEN LET pushed == PushWhileShort(q.correctAnswers, AvailableLabels(q.correctAnswers))
         IN  [q EXCEPT !.correctAnswers = IF Len(pushed) < 2 THEN <<"A", "B">> ELSE pushed]
    ELSE q

\* "Fix COMPLETION questions"
FixCompletion(q) ==
    IF q.type = "COMPLETION" /\ ~HasBlank(q.question)
    THEN LET t1 == ReplaceAll(q.question, <<"la">>, <<"la", " ", BlankMarker>>)
             t2 == ReplaceAll(t1, <<"bang">>, <<"bang", " ", BlankMarker>>)
             t3 == ReplaceAll(t2, <<"co">>, <<"co", " ", BlankMarker>>)
         IN  [q EXCEPT !.question = AppendBlank(t3)]
    ELSE q

\* "Validate and fix question types"
ValidatedQuestions(all) == [k \in 1..Len(all) |-> FixCompletion(FixMultipleResponse(all[k]))]

\* Variant: the cut is left out
FinalQuestionsUncut(validated, count) == validated

\* "Limit to requested count"
FinalQuestions(validated, count) == Slice0(validated, count)

\* The replies of the model to one prompt.  The k-th question of a reply
\* differs from the others of the same reply.
ReplyQuestion(k) ==
    IF k % 2 = 1
    THEN RawQuestion(<<"x", " ", "la", " ", "x">>, ChoicesABCD,
                     AnswersArray(<<"A">>), NumberToString(k))
    ELSE RawQuestion(<<"x", "?">>, ChoicesABCD,
                     AnswersScalar("True"), NumberToString(k))

MalformedQuestion == [GoodQuestion EXCEPT !.correctAnswers = AnswersAbsent]

Replies ==
    {ReplyCallFails, ReplyNoJson, ReplyNoQuestions}
    \cup { ReplyQuestions([k \in 1..n |-> ReplyQuestion(k)]) : n \in 0..MaxReturned }
    \cup { ReplyQuestions([k \in 1..n |-> IF k = n THEN MalformedQuestion
                                          ELSE ReplyQuestion(k)]) : n \in 1..MaxReturned }

TypeLists == UNION { [1..n -> QuestionType] : n \in 1..MaxTypes }

NormalizerIdle ==
    /\ nQuestions = <<>>
    /\ nType = "MULTIPLE_CHOICE"
    /\ nResult = Pending

\* The uploads: an accepted and a refused media type, the largest accepted
\* size and the next one
Files ==
    { [mimetype |-> m, size |-> sz] :
        m \in {"application/pdf", "text/plain", "image/png"},
        sz \in {maxSize, maxSize + 1} }

Init ==
    /\ handler = "generateMultipleQuestions"
    /\ file \in Files
    /\ extracted = FALSE
    /\ pc = "start"
    /\ questionCount \in 1..MaxCount
    /\ questionTypes \in TypeLists
    /\ idx = 0
    /\ calls = <<>>
    /\ subResults = <<>>
    /\ allGeneratedQuestions = <<>>
    /\ persisted = <<>>
    /\ NormalizerIdle
    /\ SanitizerIdle
    /\ PracticeIdle

\* validateFile throws: the method rejects with its first statement
RejectFile ==
    /\ pc = "start"
    /\ ~validateFile(file)
    /\ pc' = "failed"
    /\ UNCHANGED <<handler, file, extracted, questionCount, questionTypes, idx,
                   calls, subResults, allGeneratedQuestions, persisted>>
    /\ UNCHANGED <<normVars, sanVars, pracVars>>

\* validateFile returns and the awaited extractTextFromFile rejects (pdfParse
\* fails on the buffer)
ExtractFails ==
    /\ pc = "start"
    /\ validateFile(file)
    /\ file.mimetype = "application/pdf"
    /\ extracted' = TRUE
    /\ pc' = "failed"
    /\ UNCHANGED <<handler, file, questionCount, questionTypes, idx,
                   calls, subResults, allGeneratedQuestions, persisted>>
    /\ UNCHANGED <<normVars, sanVars, pracVars>>

\* validateFile returns, the awaited extractTextFromFile resolves, and
\* sanitizeText, which never throws, returns the content of the prompts
ExtractAndSanitize ==
    /\ pc = "start"
    /\ validateFile(file)
    /\ extracted' = TRUE
    /\ IF handler = "generateMultipleQuestions"
       THEN pc' = "loop" /\ idx' = 1
       ELSE pc' = "single" /\ idx' = idx
    /\ UNCHANGED <<handler, file, questionCount, questionTypes,
                   calls, subResults, allGeneratedQuestions, persisted>>
    /\ UNCHANGED <<normVars, sanVars, pracVars>>

\* Variant of IssueSubCall: the next call is issued without awaiting the one
\* before it
IssueSubCallEagerly ==
    /\ pc \in {"loop", "awaiting"}
    /\ Len(calls) < Len(questionTypes)
    /\ calls' = Append(calls,
                       [questionType |-> questionTypes[Len(calls) + 1],
                        questionCount |-> QuestionsPerType(questionCount,
                                                           Len(questionTypes))])
    /\ pc' = "awaiting"
    /\ UNCHANGED <<questionCount, questionTypes, idx, subResults,
                   allGeneratedQuestions, persisted>>
    /\ UNCHANGED <<handler, file, extracted>>
    /\ UNCHANGED <<normVars, sanVars, pracVars>>

\* The loop reaches `await this.openaiService.generateQuestions({...})`
IssueSubCall ==
    /\ pc = "loop"
    /\ idx <= Len(questionTypes)
    /\ calls' = Append(calls,
                       [questionType |-> questionTypes[idx],
                        questionCount |-> QuestionsPerType(questionCount,
                                                           Len(questionTypes))])
    /\ pc' = "awaiting"
    /\ UNCHANGED <<questionCount, questionTypes, idx, subResults,
                   allGeneratedQuestions, persisted>>
    /\ UNCHANGED <<handler, file, extracted>>
    /\ UNCHANGED <<normVars, sanVars, pracVars>>

\* The awaited sub-call resolves: its questions are pushed
SubCallReturns ==
    /\ pc = "awaiting"
    /\ \E reply \in Replies :
          LET r == generateQuestions(reply, calls[Len(calls)].questionType) IN
          /\ r.ok
          /\ subResults' = Append(subResults,
                                  [reply |-> reply, ok |-> TRUE, questions |-> r.questions])
          /\ allGeneratedQuestions' = PushAll(allGeneratedQuestions, r.questions)
    /\ idx' = idx + 1
    /\ pc' = "loop"
    /\ UNCHANGED <<questionCount, questionTypes, calls, persisted>>
    /\ UNCHANGED <<handler, file, extracted>>
    /\ UNCHANGED <<normVars, sanVars, pracVars>>

\* The awaited sub-call rejects: generateMultipleQuestions rejects with it
SubCallThrows ==
    /\ pc = "awaiting"
    /\ \E reply \in Replies :
          LET r == generateQuestions(reply, calls[Len(calls)].questionType) IN
          /\ ~r.ok
          /\ subResults' = Append(subResults,
                                  [reply |-> reply, ok |-> FALSE, questions |-> <<>>])
    /\ pc' = "failed"
    /\ UNCHANGED <<questionCount, questionTypes, idx, calls,
                   allGeneratedQuestions, persisted>>
    /\ UNCHANGED <<handler, file, extracted>>
    /\ UNCHANGED <<normVars, sanVars, pracVars>>

\* After the loop: the validation pass, the cut to questionCount and the
\* call of saveQuestionSet
SaveFinalQuestions ==
    /\ pc = "loop"
    /\ idx > Len(questionTypes)
    /\ persisted' = Append(persisted,
                           FinalQuestions(ValidatedQuestions(allGeneratedQuestions),
                                          questionCount))
    /\ pc' = "saved"
    /\ UNCHANGED <<questionCount, questionTypes, idx, calls, subResults,
                   allGeneratedQuestions>>
    /\ UNCHANGED <<handler, file, extracted>>
    /\ UNCHANGED <<normVars, sanVars, pracVars>>

Next ==
    \/ RejectFile
    \/ ExtractFails
    \/ ExtractAndSanitize
    \/ IssueSubCall
    \/ SubCallReturns
    \/ SubCallThrows
    \/ SaveFinalQuestions

Spec == Init /\ [][Next]_vars

----------------------------------------------------------------------------
(* QuestionsService.generateQuestions, the single-type method; its dto has  *)
(* one questionType, kept as the one entry of questionTypes                 *)

InitSingle ==
    /\ handler = "generateQuestions"
    /\ file \in Files
    /\ extracted = FALSE
    /\ pc = "start"
    /\ questionCount \in 1..MaxCount
    /\ questionTypes \in { <<t>> : t \in QuestionType }
    /\ idx = 0
    /\ calls = <<>>
    /\ subResults = <<>>
    /\ allGeneratedQuestions = <<>>
    /\ persisted = <<>>
    /\ NormalizerIdle
    /\ SanitizerIdle
    /\ PracticeIdle

\* `await this.openaiService.generateQuestions({...})` with the dto's count
SingleIssueCall ==
    /\ pc = "single"
    /\ calls' = Append(calls, [questionType |-> questionTypes[1],
                               questionCount |-> questionCount])
    /\ pc' = "singleAwaiting"
    /\ UNCHANGED <<handler, file, extracted, questionCount, questionTypes, idx,
                   subResults, allGeneratedQuestions, persisted>>
    /\ UNCHANGED <<normVars, sanVars, pracVars>>

\* Variant of SingleCallReturns: the questions are cut to the dto's count
SingleCallReturnsCapped ==
    /\ pc = "singleAwaiting"
    /\ \E reply \in Replies :
          LET r == generateQuestions(reply, calls[1].questionType) IN
          /\ r.ok
          /\ subResults' = Append(subResults,
                                  [reply |-> reply, ok |-> TRUE, questions |-> r.questions])
          /\ persisted' = Append(persisted, Slice0(r.questions, questionCount))
    /\ pc' = "saved"
    /\ UNCHANGED <<handler, file, extracted, questionCount, questionTypes, idx,
                   calls, allGeneratedQuestions>>
    /\ UNCHANGED <<normVars, sanVars, pracVars>>

\* The awaited call resolves: its questions are handed to saveQuestionSet
SingleCallReturns ==
    /\ pc = "singleAwaiting"
    /\ \E reply \in Replies :
          LET r == generateQuestions(reply, calls[1].questionType) IN
          /\ r.ok
          /\ subResults' = Append(subResults,
                                  [reply |-> reply, ok |-> TRUE, questions |-> r.questions])
          /\ persisted' = Append(persisted, r.questions)
    /\ pc' = "saved"
    /\ UNCHANGED <<handler, file, extracted, questionCount, questionTypes, idx,
                   calls, allGeneratedQuestions>>
    /\ UNCHANGED <<normVars, sanVars, pracVars>>

\* The awaited call rejects: generateQuestions rejects with it
SingleCallThrows ==
    /\ pc = "singleAwaiting"
    /\ \E reply \in Replies :
          LET r == generateQuestions(reply, calls[1].questionType) IN
          /\ ~r.ok
          /\ subResults' = Append(subResults,
                                  [reply |-> reply, ok |-> FALSE, questions |-> <<>>])
    /\ pc' = "failed"
    /\ UNCHANGED <<handler, file, extracted, questionCount, questionTypes, idx,
                   calls, allGeneratedQuestions, persisted>>
    /\ UNCHANGED <<normVars, sanVars, pracVars>>

NextSingle ==
    \/ RejectFile
    \/ ExtractFails
    \/ ExtractAndSanitize
    \/ SingleIssueCall
    \/ SingleCallReturns
    \/ SingleCallThrows

SpecSingle == InitSingle /\ [][NextSingle]_vars

\* A request to either method
InitUpload == Init \/ InitSingle

NextUpload == Next \/ NextSingle

SpecUpload == InitUpload /\ [][NextUpload]_vars

----------------------------------------------------------------------------
(* The judgement of submitAnswer on stored labels and selected choices *)

InitJudge ==
    /\ jCorrect \in LabelLists
    /\ jSelected \in LabelLists
    /\ jVerdict = "none"
    /\ sessions = <<>>
    /\ practiceAnswers = EmptyBag
    /\ call = [p \in Clients |-> IdleCall]
    /\ AggregatorIdle
    /\ NormalizerIdle
    /\ SanitizerIdle

\* const isCorrect = JSON.stringify(...) === JSON.stringify(...)
Judge ==
    /\ jVerdict = "none"
    /\ jVerdict' = IF isCorrect(jCorrect, jSelected) THEN "correct" ELSE "incorrect"
    /\ UNCHANGED <<jCorrect, jSelected, sessions, practiceAnswers, call>>
    /\ UNCHANGED <<aggVars, normVars, sanVars>>

NextJudge == Judge

SpecJudge == InitJudge /\ [][NextJudge]_vars

----------------------------------------------------------------------------
(* PracticeService: startPractice, submitAnswer and completePractice, one   *)
(* action per awaited query.  call[p].atStart keeps the tables as they were *)
(* when the call of client p began; the properties compare against it.      *)

InitPractice ==
    /\ sessions = <<>>
    /\ practiceAnswers = EmptyBag
    /\ call = [p \in Clients |-> IdleCall]
    /\ JudgeIdle
    /\ AggregatorIdle
    /\ NormalizerIdle
    /\ SanitizerIdle

NoCallInFlight == \A p \in Clients : call[p].pc = "idle"

\* PracticeService touches nothing but its tables
OthersUnchanged == UNCHANGED <<judgeVars, aggVars, normVars, sanVars>>

\* A call of client p begins
Begin(p, op, firstStep, sessionId, questionId, questionSetId, selectedChoices) ==
    /\ call[p].pc = "idle"
    /\ call' = [call EXCEPT ![p] =
                  [IdleCall EXCEPT !.op = op, !.pc = firstStep,
                                   !.sessionId = sessionId,
                                   !.questionId = questionId,
                                   !.questionSetId = questionSetId,
                                   !.selectedChoices = selectedChoices,
                                   !.atStart = [sessions |-> sessions,
                                                practiceAnswers |-> practiceAnswers]]]
    /\ UNCHANGED <<sessions, practiceAnswers>>
    /\ OthersUnchanged

\* The call of client p throws
Throw(p, exception) ==
    /\ call' = [call EXCEPT ![p].pc = "done", ![p].outcome = exception]
    /\ UNCHANGED <<sessions, practiceAnswers>>
    /\ OthersUnchanged

At(p, op, step) == call[p].op = op /\ call[p].pc = step

StartedSessions ==
    Len(sessions) + Cardinality({ p \in Clients : call[p].op = "startPractice" })

BeginStartPractice(p, questionSetId) ==
    /\ StartedSessions < MaxSessions
    /\ Begin(p, "startPractice", "findQuestionSet", 0, "", questionSetId, <<>>)

\* await this.prisma.questionSet.findUnique and the two checks after it
StartFindQuestionSet(p) ==
    /\ At(p, "startPractice", "findQuestionSet")
    /\ IF call[p].questionSetId \notin DOMAIN QuestionSets
       THEN Throw(p, "NotFoundException")
       ELSE IF Len(QuestionSets[call[p].questionSetId]) = 0
            THEN Throw(p, "BadRequestException")
            ELSE /\ call' = [call EXCEPT
                              ![p].pc = "createSession",
                              ![p].session =
                                  [questionSetId |-> call[p].questionSetId,
                                   totalQuestions |->
                                       Len(QuestionSets[call[p].questionSetId]),
                                   score |-> 0,
                                   isCompleted |-> FALSE]]
                 /\ UNCHANGED <<sessions, practiceAnswers>>
                 /\ OthersUnchanged

\* await this.prisma.practiceSession.create
StartCreateSession(p) ==
    /\ At(p, "startPractice", "createSession")
    /\ sessions' = Append(sessions, call[p].session)
    /\ call' = [call EXCEPT ![p].pc = "done", ![p].outcome = "returned",
                            ![p].sessionId = Len(sessions) + 1]
    /\ UNCHANGED practiceAnswers
    /\ OthersUnchanged

BeginSubmitAnswer(p, sessionId, questionId, selectedChoices) ==
    Begin(p, "submitAnswer", "findSession", sessionId, questionId, "", selectedChoices)

\* await this.prisma.practiceSession.findUnique and the two checks after it
SubmitFindSession(p) ==
    /\ At(p, "submitAnswer", "findSession")
    /\ IF call[p].sessionId \notin 1..Len(sessions)
       THEN Throw(p, "NotFoundException")
       ELSE IF sessions[call[p].sessionId].isCompleted
            THEN Throw(p, "BadRequestException")
            ELSE /\ call' = [call EXCEPT ![p].pc = "findQuestion",
                                         ![p].session = sessions[call[p].sessionId]]
                 /\ UNCHANGED <<sessions, practiceAnswers>>
                 /\ OthersUnchanged

\* await this.prisma.question.findUnique and the check after it
SubmitFindQuestion(p) ==
    /\ At(p, "submitAnswer", "findQuestion")
    /\ IF call[p].questionId \notin DOMAIN Questions
       THEN Throw(p, "NotFoundException")
       ELSE /\ call' = [call EXCEPT ![p].pc = "findExistingAnswer"]
            /\ UNCHANGED <<sessions, practiceAnswers>>
            /\ OthersUnchanged

\* await this.prisma.practiceAnswer.findFirst, the check after it, and the
\* judgement; selectedChoices.sort() sorts the dto's array in place
SubmitFindExistingAnswer(p) ==
    /\ At(p, "submitAnswer", "findExistingAnswer")
    /\ IF AnswersFor(practiceAnswers, call[p].sessionId, call[p].questionId) # {}
       THEN Throw(p, "BadRequestException")
       ELSE /\ call' = [call EXCEPT
                         ![p].pc = "createAnswer",
                         ![p].correctAnswerLabels =
                             Sort(Questions[call[p].questionId].correctAnswers),
                         ![p].selectedChoices = Sort(call[p].selectedChoices),
                         ![p].isCorrect =
                             isCorrect(Questions[call[p].questionId].correctAnswers,
                                       call[p].selectedChoices)]
            /\ UNCHANGED <<sessions, practiceAnswers>>
            /\ OthersUnchanged

\* await this.prisma.practiceAnswer.create
SubmitCreateAnswer(p) ==
    /\ At(p, "submitAnswer", "createAnswer")
    /\ practiceAnswers' = practiceAnswers (+)
                              SetToBag({[sessionId |-> call[p].sessionId,
                                         questionId |-> call[p].questionId,
                                         selectedChoices |-> call[p].selectedChoices,
                                         isCorrect |-> call[p].isCorrect]})
    /\ call' = [call EXCEPT ![p].pc = "updateScore"]
    /\ UNCHANGED sessions
    /\ OthersUnchanged

\* currentScore = session.score + (isCorrect ? 1 : 0) from the session read
\* at the start, and await this.prisma.practiceSession.update
SubmitUpdateScore(p) ==
    /\ At(p, "submitAnswer", "updateScore")
    /\ sessions' = [sessions EXCEPT
                      ![call[p].sessionId].score =
                          call[p].session.score + (IF call[p].isCorrect THEN 1 ELSE 0)]
    /\ call' = [call EXCEPT ![p].pc = "done", ![p].outcome = "returned"]
    /\ UNCHANGED practiceAnswers
    /\ OthersUnchanged

BeginCompletePractice(p, sessionId) ==
    Begin(p, "completePractice", "findSession", sessionId, "", "", <<>>)

\* await this.prisma.practiceSession.findUnique and the two checks after it
CompleteFindSession(p) ==
    /\ At(p, "completePractice", "findSession")
    /\ IF call[p].sessionId \notin 1..Len(sessions)
       THEN Throw(p, "NotFoundException")
       ELSE IF sessions[call[p].sessionId].isCompleted
            THEN Throw(p, "BadRequestException")
            ELSE /\ call' = [call EXCEPT ![p].pc = "updateSession",
                                         ![p].session = sessions[call[p].sessionId]]
                 /\ UNCHANGED <<sessions, practiceAnswers>>
                 /\ OthersUnchanged

\* await this.prisma.practiceSession.update({ data: { isCompleted: true } })
CompleteUpdateSession(p) ==
    /\ At(p, "completePractice", "updateSession")
    /\ sessions' = [sessions EXCEPT ![call[p].sessionId].isCompleted = TRUE]
    /\ call' = [call EXCEPT ![p].pc = "done", ![p].outcome = "returned"]
    /\ UNCHANGED practiceAnswers
    /\ OthersUnchanged

\* The client has the result of its call
Return(p) ==
    /\ call[p].pc = "done"
    /\ call' = [call EXCEPT ![p] = IdleCall]
    /\ UNCHANGED <<sessions, practiceAnswers>>
    /\ OthersUnchanged

\* Sequential execution: a call begins only when no call is in flight
StartPracticeBegins ==
    /\ NoCallInFlight
    /\ \E p \in Clients, questionSetId \in QuestionSetIds :
          BeginStartPractice(p, questionSetId)

SubmitAnswerBegins ==
    /\ NoCallInFlight
    /\ \E p \in Clients, sessionId \in 1..MaxSessions, questionId \in QuestionIds,
          selectedChoices \in SelectedSamples :
             BeginSubmitAnswer(p, sessionId, questionId, selectedChoices)

CompletePracticeBegins ==
    /\ NoCallInFlight
    /\ \E p \in Clients, sessionId \in 1..MaxSessions :
          BeginCompletePractice(p, sessionId)

NextPractice ==
    \/ StartPracticeBegins
    \/ SubmitAnswerBegins
    \/ CompletePracticeBegins
    \/ \E p \in Clients : StartFindQuestionSet(p)
    \/ \E p \in Clients : StartCreateSession(p)
    \/ \E p \in Clients : SubmitFindSession(p)
    \/ \E p \in Clients : SubmitFindQuestion(p)
    \/ \E p \in Clients : SubmitFindExistingAnswer(p)
    \/ \E p \in Clients : SubmitCreateAnswer(p)
    \/ \E p \in Clients : SubmitUpdateScore(p)
    \/ \E p \in Clients : CompleteFindSession(p)
    \/ \E p \in Clients : CompleteUpdateSession(p)
    \/ \E p \in Clients : Return(p)

SpecPractice == InitPractice /\ [][NextPractice]_vars

----------------------------------------------------------------------------
(* PracticeService with calls of several clients in flight at once: the    *)
(* awaited queries of the calls interleave                                  *)

SubmitsInFlight == Cardinality({ p \in Clients : call[p].op = "submitAnswer" })

SubmitAnswerBeginsConcurrently ==
    /\ BagCardinality(practiceAnswers) + SubmitsInFlight < MaxStoredAnswers
    /\ \E p \in Clients, sessionId \in 1..MaxSessions, questionId \in QuestionIds,
          selectedChoices \in SelectedSamples :
             BeginSubmitAnswer(p, sessionId, questionId, selectedChoices)

NextPracticeConcurrent ==
    \/ \E p \in Clients, questionSetId \in QuestionSetIds :
          BeginStartPractice(p, questionSetId)
    \/ SubmitAnswerBeginsConcurrently
    \/ \E p \in Clients, sessionId \in 1..MaxSessions :
          BeginCompletePractice(p, sessionId)
    \/ \E p \in Clients : StartFindQuestionSet(p)
    \/ \E p \in Clients : StartCreateSession(p)
    \/ \E p \in Clients : SubmitFindSession(p)
    \/ \E p \in Clients : SubmitFindQuestion(p)
    \/ \E p \in Clients : SubmitFindExistingAnswer(p)
    \/ \E p \in Clients : SubmitCreateAnswer(p)
    \/ \E p \in Clients : SubmitUpdateScore(p)
    \/ \E p \in Clients : CompleteFindSession(p)
    \/ \E p \in Clients : CompleteUpdateSession(p)
    \/ \E p \in Clients : Return(p)

SpecPracticeConcurrent == InitPractice /\ [][NextPracticeConcurrent]_vars

----------------------------------------------------------------------------
(* sanitizeText applied to an extracted text, and to its own output *)

InitSanitize ==
    /\ sText \in ExtractedTexts
    /\ sFirst = NotCalled
    /\ sSecond = NotCalled
    /\ AggregatorIdle
    /\ NormalizerIdle
    /\ PracticeIdle

\* sanitizeText(sText)
Sanitize ==
    /\ sFirst = NotCalled
    /\ sFirst' = sanitizeText(sText)
    /\ UNCHANGED <<sText, sSecond>>
    /\ UNCHANGED <<aggVars, normVars, pracVars>>

\* sanitizeText applied to the text the first call returned
SanitizeAgain ==
    /\ sFirst # NotCalled
    /\ sSecond = NotCalled
    /\ sSecond' = sanitizeText(sFirst.text)
    /\ UNCHANGED <<sText, sFirst>>
    /\ UNCHANGED <<aggVars, normVars, pracVars>>

NextSanitize == Sanitize \/ SanitizeAgain

SpecSanitize == InitSanitize /\ [][NextSanitize]_vars

----------------------------------------------------------------------------
(* Properties of the aggregator, checked under Spec *)

\* The concatenation of what the sub-calls returned, in the order of the calls
RECURSIVE Concatenation(_)
Concatenation(results) ==
    IF results = <<>> THEN <<>>
    ELSE Head(results).questions \o Concatenation(Tail(results))

IsPrefix(a, b) == Len(a) <= Len(b) /\ a = SubSeq(b, 1, Len(a))

\* C1: the list handed to persistence is a prefix of the concatenation of the
\* per-type results in the order of questionTypes, of at most questionCount
\* items; when the first sub-call alone returned at least questionCount
\* questions, the list is made of the first questionCount of them.
C1_PrefixOfConcatenation ==
    pc = "saved" =>
        /\ Len(persisted) = 1
        /\ IsPrefix(persisted[1], Concatenation(subResults))
        /\ Len(persisted[1]) <= questionCount
        /\ Len(subResults[1].questions) >= questionCount
               => persisted[1] = SubSeq(subResults[1].questions, 1, questionCount)

C1_Witness ==
    /\ pc = "saved"
    /\ questionCount = 2
    /\ Len(questionTypes) = 2
    /\ questionTypes[1] # questionTypes[2]
    /\ Len(subResults[1].questions) = 2
    /\ Len(subResults[2].questions) = 2
    /\ persisted[1] = subResults[1].questions

\* C2 as stated: a successful multi-type generation hands exactly
\* questionCount questions to persistence.
C2_ExactlyQuestionCount ==
    pc = "saved" => Len(persisted[1]) = questionCount

\* C2 amended: it hands over questionCount questions when the sub-calls
\* returned at least that many in total, and all the returned questions
\* otherwise.
C2_AtMostQuestionCount ==
    pc = "saved" =>
        Len(persisted[1]) =
            IF Len(Concatenation(subResults)) >= questionCount
            THEN questionCount
            ELSE Len(Concatenation(subResults))

C2_Witness ==
    /\ pc = "saved"
    /\ questionCount = 2
    /\ Len(Concatenation(subResults)) = 3
    /\ Len(persisted[1]) = 2

\* C3: the sub-calls are issued one per entry of questionTypes, in order
\* (a type listed twice is called twice), each with the quota
\* ceiling(questionCount / number of entries); a request that succeeds has
\* issued one for every entry.
C3_OneCallPerEntryAtQuota ==
    /\ Len(calls) <= Len(questionTypes)
    /\ \A i \in 1..Len(calls) :
          /\ calls[i].questionType = questionTypes[i]
          /\ calls[i].questionCount * Len(questionTypes) >= questionCount
          /\ (calls[i].questionCount - 1) * Len(questionTypes) < questionCount
    /\ pc = "saved" => Len(calls) = Len(questionTypes)

C3_Witness ==
    /\ pc = "saved"
    /\ questionCount = 3
    /\ Len(questionTypes) = 2
    /\ questionTypes[1] = questionTypes[2]
    /\ Len(calls) = 2
    /\ calls[1].questionCount = 2
    /\ calls[2].questionCount = 2

\* A reply on which the single-type pipeline fails: the model call fails, no
\* JSON with a questions array is recovered, or an element is malformed
FailingReply(reply) ==
    \/ reply.callFails
    \/ ~reply.jsonFound
    \/ ~reply.hasQuestions
    \/ \E k \in 1..Len(reply.questions) :
          \/ ~reply.questions[k].isObject
          \/ ~reply.questions[k].questionIsString
          \/ ~reply.questions[k].choicesIsArray
          \/ reply.questions[k].correctAnswers.kind = "absent"

\* C4: when the sub-call of any entry fails, the multi-type call fails and
\* nothing is handed to persistence, whatever the earlier sub-calls returned.
C4_SubCallFailureFailsAll ==
    /\ \A i \in 1..Len(subResults) :
          FailingReply(subResults[i].reply) => (pc = "failed" /\ persisted = <<>>)
    /\ pc = "failed" => persisted = <<>>
    /\ persisted # <<>> => pc = "saved"

C4_Witness ==
    /\ pc = "failed"
    /\ Len(subResults) = 2
    /\ Len(subResults[1].questions) = 2
    /\ FailingReply(subResults[2].reply)
    /\ allGeneratedQuestions = subResults[1].questions
    /\ persisted = <<>>

----------------------------------------------------------------------------
(* Properties of the normalizer, checked under SpecNormalize *)

Returned == nResult.status = "returned"

\* The answers the raw question k declares, as a list
Declared(k) ==
    IF nQuestions[k].correctAnswers.kind = "array"
    THEN nQuestions[k].correctAnswers.items
    ELSE << nQuestions[k].correctAnswers.value >>

\* The raw question k has the shape the generator is asked for: choices with
\* string labels and contents, at least one of them, and correctAnswers a
\* string or a list of strings
WellTyped(k) ==
    /\ Len(nQuestions[k].choices) > 0
    /\ \A j \in 1..Len(nQuestions[k].choices) :
          /\ nQuestions[k].choices[j].label.t = "string"
          /\ nQuestions[k].choices[j].content.t = "string"
    /\ \A a \in 1..Len(Declared(k)) : Declared(k)[a] # Null

ChoiceLabels(q) == { q.choices[j].label : j \in 1..Len(q.choices) }

\* C5: every value in the correctAnswers of a normalized question is the
\* label of one of that question's choices (stated for the well-typed raw
\* questions).
C5_AnswersAreChoiceLabels ==
    Returned =>
        \A k \in 1..Len(nResult.questions) :
            WellTyped(k) => \A a \in 1..Len(nResult.questions[k].correctAnswers) :
                nResult.questions[k].correctAnswers[a] \in ChoiceLabels(nResult.questions[k])

\* C6: a question normalized as TRUE_FALSE has exactly the choices True and
\* False with the fixed contents, and correctAnswers is one answer, "True" or
\* "False", which is "True" when the first supplied answer is neither
\* (stated for the well-typed raw questions).
C6_TrueFalseCanonical ==
    (Returned /\ nType = "TRUE_FALSE") =>
        \A k \in 1..Len(nResult.questions) :
            LET out == nResult.questions[k] IN
            WellTyped(k) =>
            /\ out.choices = << [label |-> "True", content |-> "Dung"],
                                [label |-> "False", content |-> "Sai"] >>
            /\ Len(out.correctAnswers) = 1
            /\ out.correctAnswers[1] \in {"True", "False"}
            /\ (Declared(k) = <<>> \/ Declared(k)[1] \notin {"True", "False"})
                   => out.correctAnswers = <<"True">>

\* C7: a question normalized as MULTIPLE_RESPONSE has 2 or 3 correct answers,
\* and when more than 3 were supplied they are the first 3 supplied, in order.
C7_MultipleResponseCardinality ==
    (Returned /\ nType = "MULTIPLE_RESPONSE") =>
        \A k \in 1..Len(nResult.questions) :
            LET out == nResult.questions[k] IN
            /\ Len(out.correctAnswers) \in 2..3
            /\ Len(Declared(k)) > 3
                   => out.correctAnswers = SubSeq(Declared(k), 1, 3)

C7_Witness ==
    /\ Returned /\ Len(nQuestions) = 1 /\ nType = "MULTIPLE_RESPONSE"
    /\ Len(Declared(1)) = 4
    /\ nResult.questions[1].correctAnswers = <<"True", "A", Null>>

\* C8: MULTIPLE_RESPONSE with exactly one supplied answer yields that answer
\* followed by the first of A, B, C, D that differs from it; with zero
\* supplied answers it yields A, B.
C8_MultipleResponseRepair ==
    (Returned /\ nType = "MULTIPLE_RESPONSE") =>
        \A k \in 1..Len(nResult.questions) :
            LET out == nResult.questions[k] IN
            /\ Len(Declared(k)) = 1
                   => out.correctAnswers =
                          << Declared(k)[1], IF Declared(k)[1] = "A" THEN "B" ELSE "A" >>
            /\ Len(Declared(k)) = 0 => out.correctAnswers = <<"A", "B">>

C8_Witness ==
    /\ Returned /\ Len(nQuestions) = 1 /\ nType = "MULTIPLE_RESPONSE"
    /\ nQuestions[1].correctAnswers = AnswersArray(<<"A">>)
    /\ nResult.questions[1].correctAnswers = <<"A", "B">>

\* C9: a question normalized as MATCHING has as correctAnswers the labels of
\* all its choices, in choice order, whatever correctAnswers was supplied.
C9_MatchingAllLabels ==
    (Returned /\ nType = "MATCHING") =>
        \A k \in 1..Len(nResult.questions) :
            LET out == nResult.questions[k] IN
            /\ Len(out.correctAnswers) = Len(out.choices)
            /\ \A j \in 1..Len(out.choices) : out.correctAnswers[j] = out.choices[j].label
            /\ Len(out.choices) = Len(nQuestions[k].choices)

C9_Witness ==
    /\ Returned /\ Len(nQuestions) = 1 /\ nType = "MATCHING"
    /\ nQuestions[1].correctAnswers = AnswersArray(<<"True", Null>>)
    /\ nResult.questions[1].correctAnswers = <<"A", "B", "C", "D">>

\* C10 as stated: a question normalized as MULTIPLE_CHOICE or COMPLETION has
\* exactly one correct answer, the first answer the raw question declares
\* (stated for the well-typed raw questions).
C10_FirstDeclaredAnswer ==
    (Returned /\ nType \in {"MULTIPLE_CHOICE", "COMPLETION"}) =>
        \A k \in 1..Len(nResult.questions) :
            WellTyped(k) =>
            /\ Len(Declared(k)) >= 1
            /\ nResult.questions[k].correctAnswers = << Declared(k)[1] >>

\* C10 amended: exactly one correct answer: the first declared answer, or "A"
\* when the raw question declares none (an empty list, or a first entry that
\* is null).
C10_FirstDeclaredOrDefault ==
    (Returned /\ nType \in {"MULTIPLE_CHOICE", "COMPLETION"}) =>
        \A k \in 1..Len(nResult.questions) :
            nResult.questions[k].correctAnswers =
                << IF Declared(k) = <<>> \/ Declared(k)[1] = Null
                   THEN "A" ELSE Declared(k)[1] >>

C10_Witness ==
    /\ Returned /\ Len(nQuestions) = 1 /\ nType = "COMPLETION"
    /\ nQuestions[1].correctAnswers = AnswersArray(<<"False", "A", "True">>)
    /\ nResult.questions[1].correctAnswers = <<"False">>

----------------------------------------------------------------------------
(* Properties of the Completion repair, checked under SpecNormalize *)

\* the number of blank markers in a text
RECURSIVE CountBlanks(_)
CountBlanks(text) ==
    IF text = <<>> THEN 0
    ELSE (IF Head(text) = BlankMarker THEN 1 ELSE 0) + CountBlanks(Tail(text))

\* C11: every question normalized as COMPLETION has a text that contains the
\* blank marker, whatever the raw text was (the empty text included), and
\* the text still contains it after the aggregator's validation pass.
C11_CompletionHasBlank ==
    (Returned /\ nType = "COMPLETION") =>
        \A k \in 1..Len(nResult.questions) :
            /\ HasBlank(nResult.questions[k].question)
            /\ HasBlank(ValidatedQuestions(nResult.questions)[k].question)

\* a raw text without marker and without any pattern match, repaired by the
\* final append, and the empty text
C11_Witness ==
    /\ Returned /\ Len(nQuestions) = 1 /\ nType = "COMPLETION"
    /\ nQuestions[1].question = << >>
    /\ nResult.questions[1].question = << " ", BlankMarker >>

\* C12: when the raw text of a COMPLETION question lacks the blank marker,
\* the repaired text contains exactly one blank marker.
C12_ExactlyOneBlank ==
    (Returned /\ nType = "COMPLETION") =>
        \A k \in 1..Len(nResult.questions) :
            ~HasBlank(nQuestions[k].question) =>
                CountBlanks(nResult.questions[k].question) = 1

----------------------------------------------------------------------------
(* Properties of the structural checks, checked under SpecNormalize *)

\* The element is structurally invalid: not an object, question not a
\* string, choices not an array, or correctAnswers absent
StructurallyInvalid(q) ==
    \/ ~q.isObject
    \/ ~q.questionIsString
    \/ ~q.choicesIsArray
    \/ q.correctAnswers = AnswersAbsent

\* C13: when any element of the questions array is structurally invalid,
\* validateAndFormatQuestions throws and so does generateQuestions: no list
\* is returned, the valid elements included.
C13_InvalidElementFailsCall ==
    (nResult.status # "pending"
        /\ \E k \in 1..Len(nQuestions) : StructurallyInvalid(nQuestions[k])) =>
            /\ nResult = [status |-> "threw", questions |-> <<>>]
            /\ ~generateQuestions(ReplyQuestions(nQuestions), nType).ok

\* a valid element, an element that is not an object, a valid element
C13_Witness ==
    /\ nResult.status = "threw"
    /\ Len(nQuestions) = 3
    /\ nQuestions[1] = GoodQuestion
    /\ ~nQuestions[2].isObject
    /\ nQuestions[3] = GoodQuestion

\* Some choice of some element is an object whose label or content is
\* neither a string nor a number
SomeFieldOfOtherType ==
    \E k \in 1..Len(nQuestions) : \E j \in 1..Len(nQuestions[k].choices) :
        /\ nQuestions[k].choices[j].isObject
        /\ \/ nQuestions[k].choices[j].label.t = "other"
           \/ nQuestions[k].choices[j].content.t = "other"

----------------------------------------------------------------------------
(* Properties of sanitizeText, checked under SpecSanitize *)

\* C15: sanitizeText applied to its own output returns the identical text
\* with wasTruncated = FALSE; and a text whose normalized form is not longer
\* than MAX_CHARS is returned as that normalized form, with wasTruncated =
\* FALSE and originalLength = truncatedLength.
C15_SanitizeIdempotent ==
    /\ sSecond # NotCalled =>
          /\ sSecond.text = sFirst.text
          /\ ~sSecond.wasTruncated
          /\ sSecond.originalLength = sSecond.truncatedLength
    /\ (sFirst # NotCalled /\ sFirst.originalLength <= MAX_CHARS) =>
          /\ sFirst.text = NormalizeWhiteSpace(sText)
          /\ ~sFirst.wasTruncated
          /\ sFirst.originalLength = sFirst.truncatedLength
          /\ sFirst.originalLength = Len(sFirst.text)

\* the first call cut the text at MAX_CHARS, where a blank preceded the cut,
\* and the second call returned its input
C15_Witness ==
    /\ sSecond # NotCalled
    /\ sFirst.wasTruncated
    /\ sFirst.originalLength > MAX_CHARS
    /\ sFirst.truncatedLength = MAX_CHARS - 1
    /\ sSecond.text = sFirst.text

\* The positions, from 1, of the sentence terminators of the delimiters that
\* lie inside the last 20% of the first MAX_CHARS characters of str
TerminatorsInWindow(str) ==
    { p \in (MAX_CHARS - (MAX_CHARS \div 5) + 1)..(MAX_CHARS - 1) :
        /\ p + 1 <= Len(str)
        /\ str[p] \in {".", "!", "?"}
        /\ str[p + 1] \in {" ", "\n"} }

\* C16: when the normalized text is longer than MAX_CHARS and a sentence
\* delimiter lies inside the window, the output is the prefix of the
\* normalized text that ends at the terminator of the last such delimiter,
\* of whatever kind, wasTruncated is TRUE and truncatedLength <= MAX_CHARS.
C16_CutAtLastSentenceEnd ==
    LET normalized == NormalizeWhiteSpace(sText)
        terminators == TerminatorsInWindow(normalized)
    IN  (sFirst # NotCalled /\ Len(normalized) > MAX_CHARS /\ terminators # {}) =>
            LET last == CHOOSE p \in terminators : \A q \in terminators : q <= p IN
            /\ sFirst.text = SubSeq(normalized, 1, last)
            /\ sFirst.wasTruncated
            /\ sFirst.truncatedLength = last
            /\ sFirst.truncatedLength <= MAX_CHARS

\* two delimiters of different kinds in the window, ". " before "? ": the
\* cut is after the "?"
C16_Witness ==
    /\ sFirst # NotCalled
    /\ sFirst.wasTruncated
    /\ Cardinality(TerminatorsInWindow(NormalizeWhiteSpace(sText))) = 2
    /\ sFirst.text # <<>>
    /\ sFirst.text[Len(sFirst.text)] = "?"
    /\ \E p \in 1..(Len(sFirst.text) - 1) : sFirst.text[p] = "."

----------------------------------------------------------------------------
(* Properties of the upload check, checked under SpecUpload *)

\* The upload's media type is neither application/pdf nor text/plain, or its
\* size is more than 10 MiB
UploadRefused ==
    \/ file.mimetype \notin {"application/pdf", "text/plain"}
    \/ file.size > 10485760

\* C17: for such an upload the request, to generateQuestions or to
\* generateMultipleQuestions, fails at validateFile: extractTextFromFile is
\* never called, no call of the model is issued and nothing is handed to
\* persistence.
C17_RefusedUploadFailsFirst ==
    (pc # "idle" /\ UploadRefused) =>
        /\ pc \in {"start", "failed"}
        /\ ~extracted
        /\ calls = <<>>
        /\ subResults = <<>>
        /\ persisted = <<>>

\* a PDF of one byte more than 10 MiB, refused
C17_Witness ==
    /\ pc = "failed"
    /\ handler = "generateQuestions"
    /\ file = [mimetype |-> "application/pdf", size |-> 10485761]
    /\ ~extracted

----------------------------------------------------------------------------
(* Order of the sub-calls, checked under Spec *)

\* C20: the sub-calls of one multi-type request are issued one after
\* another in the order of questionTypes: at most one call is in flight, and
\* when the call of entry i+1 has been issued, the calls of the entries
\* 1..i have completed successfully.
C20_SubCallsSequential ==
    /\ Len(calls) - Len(subResults) \in {0, 1}
    /\ (pc = "awaiting") = (Len(calls) = Len(subResults) + 1)
    /\ \A i \in 1..Len(calls) :
          /\ calls[i].questionType = questionTypes[i]
          /\ \A j \in 1..(i - 1) : j <= Len(subResults) /\ subResults[j].ok

\* the second call in flight after the first returned
C20_Witness ==
    /\ pc = "awaiting"
    /\ Len(calls) = 2
    /\ Len(subResults) = 1
    /\ subResults[1].ok
    /\ questionTypes[1] # questionTypes[2]

----------------------------------------------------------------------------
(* Properties of the judgement, checked under SpecJudge *)

\* the set of the elements of a list
Elements(arr) == { arr[k] : k \in 1..Len(arr) }

\* how many times x occurs in a list
Occurrences(arr, x) == Cardinality({ k \in 1..Len(arr) : arr[k] = x })

\* C18 as stated: the answer is judged correct exactly when the selected
\* choices and the stored correct labels are equal as sets.
C18_CorrectIffEqualSets ==
    jVerdict # "none" =>
        ((jVerdict = "correct") <=> (Elements(jSelected) = Elements(jCorrect)))

\* C18 amended: the answer is judged correct exactly when every label occurs
\* as many times among the selected choices as among the stored correct
\* labels, in whatever order; so two lists without repeated labels are
\* judged by set equality, and lists of different lengths are incorrect.
C18_CorrectIffSameOccurrences ==
    jVerdict # "none" =>
        /\ (jVerdict = "correct") <=>
               \A x \in Elements(jSelected) \cup Elements(jCorrect) :
                   Occurrences(jSelected, x) = Occurrences(jCorrect, x)
        /\ (Cardinality(Elements(jSelected)) = Len(jSelected)
               /\ Cardinality(Elements(jCorrect)) = Len(jCorrect)) =>
                  ((jVerdict = "correct") <=> (Elements(jSelected) = Elements(jCorrect)))
        /\ Len(jSelected) # Len(jCorrect) => jVerdict = "incorrect"

\* the same two labels in the opposite order, judged correct
C18_Witness ==
    /\ jVerdict = "correct"
    /\ jCorrect = <<"A", "B">>
    /\ jSelected = <<"B", "A">>

----------------------------------------------------------------------------
(* Properties of submitAnswer in sequential execution, checked under      *)
(* SpecPractice                                                            *)

Rejected(p) ==
    call[p].pc = "done" /\ call[p].outcome \in {"NotFoundException", "BadRequestException"}

\* When the submitAnswer call of client p began, its session was completed
\* or an answer for its session and question was stored
CompletedOrAnsweredAtStart(p) ==
    LET before == call[p].atStart IN
    \/ /\ call[p].sessionId \in 1..Len(before.sessions)
       /\ before.sessions[call[p].sessionId].isCompleted
    \/ \E row \in BagToSet(before.practiceAnswers) :
          row.sessionId = call[p].sessionId /\ row.questionId = call[p].questionId

\* C19: in sequential execution a submitAnswer call that began when its
\* session was completed, or when an answer for its session and question
\* was stored, is rejected; and a rejected submitAnswer call has stored no
\* answer and has left every score as it was.
C19_RejectedSubmitChangesNothing ==
    \A p \in Clients :
        call[p].op = "submitAnswer" =>
            /\ CompletedOrAnsweredAtStart(p) =>
                  /\ call[p].pc \in {"findSession", "findQuestion",
                                     "findExistingAnswer", "done"}
                  /\ call[p].pc = "done" => Rejected(p)
                  /\ practiceAnswers = call[p].atStart.practiceAnswers
                  /\ sessions = call[p].atStart.sessions
            /\ Rejected(p) =>
                  /\ practiceAnswers = call[p].atStart.practiceAnswers
                  /\ sessions = call[p].atStart.sessions

\* a second answer to a question of a session that is not completed and has
\* one correct answer stored, rejected
C19_Witness ==
    \E p \in Clients :
        /\ call[p].op = "submitAnswer"
        /\ Rejected(p)
        /\ call[p].outcome = "BadRequestException"
        /\ call[p].sessionId \in 1..Len(sessions)
        /\ ~sessions[call[p].sessionId].isCompleted
        /\ sessions[call[p].sessionId].score = 1
        /\ BagCardinality(practiceAnswers) = 1
        /\ \E row \in BagToSet(practiceAnswers) :
              row.sessionId = call[p].sessionId /\ row.questionId = call[p].questionId

----------------------------------------------------------------------------
(* Properties of the single-type method, checked under SpecSingle *)

\* C21: a successful single-type generation hands to persistence one
\* normalized question per element of the decoded questions array, in the
\* order of the array, each with the requested type; their number is the
\* number of elements, whatever questionCount is.
C21_OnePerElementInOrder ==
    (handler = "generateQuestions" /\ pc = "saved") =>
        LET raw == subResults[1].reply.questions
            out == persisted[1]
        IN  /\ Len(persisted) = 1
            /\ Len(out) = Len(raw)
            /\ \A k \in 1..Len(out) :
                  /\ out[k].type = questionTypes[1]
                  /\ out[k].explanation = raw[k].explanation
                  /\ questionTypes[1] # "COMPLETION" => out[k].question = raw[k].question

\* three questions returned for a request of one: none is dropped
C21_Witness ==
    /\ handler = "generateQuestions"
    /\ pc = "saved"
    /\ questionCount = 1
    /\ Len(persisted[1]) = 3
    /\ persisted[1][3].explanation = "3"

----------------------------------------------------------------------------
(* Blank lines in sanitizeText, checked under SpecSanitize *)

\* The text has two line breaks in a row with a character that is not white
\* space somewhere before them and somewhere after them
HasInnerBlankLine(text) ==
    \E i \in 1..(Len(text) - 1) :
        /\ text[i] = "\n" /\ text[i + 1] = "\n"
        /\ \E j \in 1..(i - 1) : ~IsWhiteSpace(text[j])
        /\ \E j \in (i + 2)..Len(text) : ~IsWhiteSpace(text[j])

\* C22: a blank-line sequence inside the input is a single line break in
\* the output of the whitespace normalization: the output of a text that was
\* not truncated has a line break when the input has such a sequence.
C22_BlankLineBecomesLineBreak ==
    (sFirst # NotCalled /\ ~sFirst.wasTruncated /\ HasInnerBlankLine(sText)) =>
        Includes(sFirst.text, "\n")

----------------------------------------------------------------------------
(* Properties of the practice store *)

\* the number of rows of practice_answers of a session with isCorrect = true
CorrectAnswers(sessionId) ==
    BagCardinality([row \in { r \in BagToSet(practiceAnswers) :
                                r.sessionId = sessionId /\ r.isCorrect }
                       |-> CopiesIn(row, practiceAnswers)])

\* C23, checked under SpecPracticeConcurrent: practice_answers holds at most
\* one row for a session and a question.
C23_OneAnswerPerQuestion ==
    \A sessionId \in 1..Len(sessions), questionId \in QuestionIds :
        BagCardinality([row \in { r \in BagToSet(practiceAnswers) :
                                    r.sessionId = sessionId /\ r.questionId = questionId }
                           |-> CopiesIn(row, practiceAnswers)]) <= 1

\* C24, checked under SpecPracticeConcurrent: when no call is in flight, the
\* score of every session is the number of its answers with isCorrect = true.
C24_ScoreCountsCorrectAnswers ==
    NoCallInFlight =>
        \A sessionId \in 1..Len(sessions) :
            sessions[sessionId].score = CorrectAnswers(sessionId)

\* C25, checked under SpecPractice: the score of every session is at most
\* its totalQuestions.
C25_ScoreAtMostTotalQuestions ==
    \A sessionId \in 1..Len(sessions) :
        sessions[sessionId].score <= sessions[sessionId].totalQuestions

\* C26, checked under SpecPracticeConcurrent: a completed session stays
\* completed, and no step changes its score or its answers.
C26_CompletedSessionIsFrozen ==
    [][\A sessionId \in 1..Len(sessions) :
          sessions[sessionId].isCompleted =>
              /\ sessions'[sessionId].isCompleted
              /\ sessions'[sessionId].score = sessions[sessionId].score
              /\ \A row \in BagToSet(practiceAnswers') :
                    row.sessionId = sessionId =>
                        CopiesIn(row, practiceAnswers') = CopiesIn(row, practiceAnswers)]_vars

----------------------------------------------------------------------------
(* The aggregator's validation pass on normalizer output, checked under    *)
(* SpecNormalize                                                           *)

\* C27: the validation pass of generateMultipleQuestions returns every
\* question that validateAndFormatQuestions returned as it is: neither
\* correctAnswers nor the question text changes.
C27_ValidationPassIsIdentity ==
    Returned =>
        /\ ValidatedQuestions(nResult.questions) = nResult.questions
        /\ \A k \in 1..Len(nResult.questions) :
              LET q == nResult.questions[k] IN
              /\ FixMultipleResponse(q).correctAnswers = q.correctAnswers
              /\ FixCompletion(q).question = q.question

\* a MULTIPLE_RESPONSE question that the normalizer topped up to two
\* answers, left alone by the pass
C27_Witness ==
    /\ Returned /\ Len(nQuestions) = 1 /\ nType = "MULTIPLE_RESPONSE"
    /\ nQuestions[1].correctAnswers = AnswersArray(<<"True">>)
    /\ Len(nResult.questions[1].correctAnswers) = 2
    /\ ValidatedQuestions(nResult.questions) = nResult.questions

====
